---- MODULE Spec2Model ----
(***************************************************************************)
(* Model of the Terraform-graph ingestion pipeline:                        *)
(*   graph_parser.py     TerraformGraphParser (load / parse_* / metadata)   *)
(*   neo4j_connector.py  Neo4jConnector (connect / close / ingest / stats)  *)
(*   main.py             main(), the one-shot run                           *)
(* Three specifications share the variables:                               *)
(*   ParserSpec  the parser object driven through its public methods        *)
(*   LoaderSpec  a connected connector driven through its public methods    *)
(*   RunSpec     main(): parse, with-block, ingest_graph, get_stats         *)
(***************************************************************************)
EXTENDS Integers, Sequences, FiniteSets, Bags, TLC

VARIABLES
    file,          \* what open(file_path) + json.load finds: [kind, doc]
    raw_data,      \* parser.raw_data: <<>> is None, <<d>> is the decoded document d
    nodes,         \* parser.nodes
    edges,         \* parser.edges
    everLoaded,    \* history: some load_graph call has returned normally
    ret,           \* outcome of the last call: [op, status, value]
    driver,        \* connector.driver: "none" (None), "open", "closed"
    storeNodes,    \* the store's :TerraformResource nodes, in creation order
    storeRels,     \* the store's :DEPENDS_ON relationships, a bag of [from, to, label]
    effect,        \* history: what the last ingest call did: [given, created, kept, overwrote]
    pc,            \* main(): the statement the run is at
    clear_existing,\* main(): not args.no_clear
    graph_data,    \* main(): <<>> before parse, <<[nodes, edges, metadata]>> after
    opLog,         \* history: the store operations the run has started, in order
    constraintFailed \* history: create_constraints' query raised in this run

vars == <<file, raw_data, nodes, edges, everLoaded, ret, driver, storeNodes,
          storeRels, effect, pc, clear_existing, graph_data, opLog,
          constraintFailed>>

parserVars == <<file, raw_data, nodes, edges, everLoaded>>
storeVars == <<storeNodes, storeRels, effect>>
runVars == <<pc, clear_existing, graph_data, opLog, constraintFailed>>

(***************************************************************************)
(* Bounds                                                                  *)
(***************************************************************************)
\* objects + edges entries of an input document
MaxEntries == 2
\* records in one ingest_nodes / ingest_edges batch
MaxBatch == 2

(***************************************************************************)
(* Python helpers                                                          *)
(***************************************************************************)
\* the empty dict / the empty function
EmptyDict == <<>>

\* dict.get(key, default)
Get(d, key, default) == IF key \in DOMAIN d THEN d[key] ELSE default

\* the dict restricted to the keys outside `excluded`
Without(d, excluded) == [k \in (DOMAIN d) \ excluded |-> d[k]]

Digit == <<"1", "2", "3", "4", "5", "6", "7", "8", "9">>

RECURSIVE StrInt(_)
\* str(n) of a non-negative int
StrInt(n) ==
    IF n = 0 THEN "0"
    ELSE IF n < 10 THEN Digit[n]
    ELSE StrInt(n \div 10) \o (IF n % 10 = 0 THEN "0" ELSE Digit[n % 10])

\* str(d.get(key)): the decimal form of the number, "None" when the key is absent
StrGet(d, key) == IF key \in DOMAIN d THEN StrInt(d[key]) ELSE "None"

(***************************************************************************)
(* Input documents                                                         *)
(***************************************************************************)
GvidValues == {0, 1}

\* keys an objects entry may carry besides _gvid, name, label
ObjExtraKeys == {"_draw_", "_ldraw_", "_hdraw_", "_tdraw_", "id", "shape"}
\* keys an edges entry may carry besides tail, head, label
EdgeExtraKeys == {"_gvid", "_draw_", "_ldraw_", "_hdraw_", "_tdraw_", "source", "target"}

Opt(key, values) == {EmptyDict} \cup {key :> v : v \in values}

\* the value an extra key carries in the inputs
ExtraVal(k) == IF k = "_gvid" THEN 7 ELSE "x"

ObjEntries ==
    {g @@ n : g \in Opt("_gvid", GvidValues), n \in Opt("name", {"web"})}
    \cup {("_gvid" :> 0) @@ n @@ ("label" :> "lbl") : n \in Opt("name", {"web"})}
    \cup {("_gvid" :> 0) @@ ("name" :> "web") @@ (k :> ExtraVal(k)) : k \in ObjExtraKeys}

EdgeEntries ==
    {t @@ h : t \in Opt("tail", GvidValues), h \in Opt("head", GvidValues)}
    \cup {("tail" :> 0) @@ ("head" :> 1) @@ ("label" :> "uses")}
    \cup {("tail" :> 0) @@ ("head" :> 1) @@ (k :> ExtraVal(k)) : k \in EdgeExtraKeys}

\* a top-level collection of exactly n entries; an empty one may also be absent
Coll(key, S, n) ==
    {key :> s : s \in [1..n -> S]} \cup (IF n = 0 THEN {EmptyDict} ELSE {})

\* JSON object documents with o objects from OS and e edges from ES; the top-level
\* name is varied on the documents without entries
DocsWith(OS, ES, o, e) ==
    {n @@ os @@ es :
        n \in (IF o + e = 0 THEN Opt("name", {"g"}) ELSE {EmptyDict}),
        os \in Coll("objects", OS, o),
        es \in Coll("edges", ES, e)}

\* the file at file_path: missing, not JSON, or a JSON document of at most
\* MaxEntries entries
FilesOver(OS, ES) ==
    {[kind |-> "missing", doc |-> EmptyDict], [kind |-> "invalid", doc |-> EmptyDict]}
    \cup {[kind |-> "json", doc |-> d] :
             d \in UNION {DocsWith(OS, ES, x[1], x[2]) :
                            x \in {y \in (0..MaxEntries) \X (0..MaxEntries) :
                                      y[1] + y[2] <= MaxEntries}}}

Files == FilesOver(ObjEntries, EdgeEntries)

(***************************************************************************)
(* TerraformGraphParser                                                    *)
(***************************************************************************)
\* `not self.raw_data`: None, or a dict with no keys
NotRawData(rd) == rd = <<>> \/ DOMAIN rd[1] = {}

NodeExcluded == {"_gvid", "name", "label", "_draw_", "_ldraw_"}
EdgeExcluded == {"tail", "head", "label", "_draw_", "_ldraw_", "_hdraw_"}

\* the node dict built from one objects entry: the three core fields, then every
\* other key of the entry assigned over them
NodeOf(obj) ==
    Without(obj, NodeExcluded)
    @@ [id |-> StrGet(obj, "_gvid"),
        name |-> Get(obj, "name", ""),
        label |-> Get(obj, "label", Get(obj, "name", ""))]

\* the edge dict built from one edges entry
EdgeOf(edge_data) ==
    Without(edge_data, EdgeExcluded)
    @@ [source |-> StrGet(edge_data, "tail"),
        target |-> StrGet(edge_data, "head"),
        label |-> Get(edge_data, "label", "DEPENDS_ON")]

RECURSIVE AppendNodes(_, _)
\* the loop over objects: skip entries without _gvid, append the others
AppendNodes(acc, objs) ==
    IF objs = <<>> THEN acc
    ELSE IF "_gvid" \notin DOMAIN Head(objs) THEN AppendNodes(acc, Tail(objs))
    ELSE AppendNodes(Append(acc, NodeOf(Head(objs))), Tail(objs))

RECURSIVE AppendEdges(_, _)
\* the loop over edges
AppendEdges(acc, eds) ==
    IF eds = <<>> THEN acc
    ELSE AppendEdges(Append(acc, EdgeOf(Head(eds))), Tail(eds))

\* parse_nodes without the reset of self.nodes: a second call accumulates
ParsedNodesNoReset(old, doc) == AppendNodes(old, Get(doc, "objects", <<>>))

\* parse_nodes' list: self.nodes is reset, then filled from raw_data['objects']
ParsedNodes(old, doc) == AppendNodes(<<>>, Get(doc, "objects", <<>>))

\* parse_edges' list: self.edges is reset, then filled from raw_data['edges']
ParsedEdges(old, doc) == AppendEdges(<<>>, Get(doc, "edges", <<>>))

\* get_graph_metadata's dict
Metadata(doc, ns, es) ==
    [name |-> Get(doc, "name", "terraform_graph"),
     directed |-> Get(doc, "directed", TRUE),
     strict |-> Get(doc, "strict", FALSE),
     node_count |-> Len(ns),
     edge_count |-> Len(es)]

Ok(op, v) == [op |-> op, status |-> "ok", value |-> <<v>>]
Raised(op, exc) == [op |-> op, status |-> exc, value |-> <<>>]

NoCall == [op |-> "none", status |-> "ok", value |-> <<>>]

NoEffect == [given |-> FALSE, created |-> FALSE, kept |-> FALSE, overwrote |-> FALSE]

load_graph ==
    /\ IF file.kind = "json"
       THEN /\ raw_data' = <<file.doc>>
            /\ everLoaded' = TRUE
            /\ ret' = Ok("load_graph", "None")
       ELSE /\ UNCHANGED <<raw_data, everLoaded>>
            /\ ret' = Raised("load_graph",
                             IF file.kind = "missing" THEN "FileNotFoundError"
                             ELSE "ValueError")
    /\ UNCHANGED <<file, nodes, edges, driver, storeVars, runVars>>

parse_nodes ==
    /\ IF NotRawData(raw_data)
       THEN /\ ret' = Raised("parse_nodes", "ValueError")
            /\ UNCHANGED nodes
       ELSE /\ nodes' = ParsedNodes(nodes, raw_data[1])
            /\ ret' = Ok("parse_nodes", nodes')
    /\ UNCHANGED <<file, raw_data, edges, everLoaded, driver, storeVars, runVars>>

parse_edges ==
    /\ IF NotRawData(raw_data)
       THEN /\ ret' = Raised("parse_edges", "ValueError")
            /\ UNCHANGED edges
       ELSE /\ edges' = ParsedEdges(edges, raw_data[1])
            /\ ret' = Ok("parse_edges", edges')
    /\ UNCHANGED <<file, raw_data, nodes, everLoaded, driver, storeVars, runVars>>

get_graph_metadata ==
    /\ IF NotRawData(raw_data)
       THEN ret' = Raised("get_graph_metadata", "ValueError")
       ELSE ret' = Ok("get_graph_metadata", Metadata(raw_data[1], nodes, edges))
    /\ UNCHANGED <<parserVars, driver, storeVars, runVars>>

\* parse(): load_graph, parse_nodes, parse_edges, get_graph_metadata; the first
\* that raises ends the call with its exception
ParseOutcome(f, rd, ns, es) ==
    IF f.kind # "json"
    THEN [raw |-> rd, nodes |-> ns, edges |-> es, loaded |-> FALSE,
          ret |-> Raised("parse", IF f.kind = "missing" THEN "FileNotFoundError"
                                  ELSE "ValueError")]
    ELSE IF NotRawData(<<f.doc>>)
    THEN [raw |-> <<f.doc>>, nodes |-> ns, edges |-> es, loaded |-> TRUE,
          ret |-> Raised("parse", "ValueError")]
    ELSE LET n == ParsedNodes(ns, f.doc)
             e == ParsedEdges(es, f.doc)
         IN [raw |-> <<f.doc>>, nodes |-> n, edges |-> e, loaded |-> TRUE,
             ret |-> Ok("parse", [nodes |-> n, edges |-> e,
                                  metadata |-> Metadata(f.doc, n, e)])]

parse ==
    /\ LET r == ParseOutcome(file, raw_data, nodes, edges)
       IN /\ raw_data' = r.raw
          /\ nodes' = r.nodes
          /\ edges' = r.edges
          /\ everLoaded' = (everLoaded \/ r.loaded)
          /\ ret' = r.ret
    /\ UNCHANGED <<file, driver, storeVars, runVars>>

ParserInit ==
    /\ file \in Files
    /\ raw_data = <<>>
    /\ nodes = <<>>
    /\ edges = <<>>
    /\ everLoaded = FALSE
    /\ ret = NoCall
    /\ driver = "none"
    /\ storeNodes = <<>>
    /\ storeRels = EmptyBag
    /\ effect = NoEffect
    /\ pc = "idle"
    /\ clear_existing = TRUE
    /\ graph_data = <<>>
    /\ opLog = <<>>
    /\ constraintFailed = FALSE

ParserNext ==
    \/ load_graph
    \/ parse_nodes
    \/ parse_edges
    \/ get_graph_metadata
    \/ parse

ParserSpec == ParserInit /\ [][ParserNext]_vars

(***************************************************************************)
(* The store: Cypher as Neo4jConnector issues it                           *)
(***************************************************************************)
\* a null property value: SET removes the property, reading a missing one gives it
Null == "<null>"

\* n.key
Prop(n, key) == Get(n, key, Null)

\* MATCH (n:TerraformResource {id: v}): the positions of the nodes whose id is v
MatchNodes(ns, v) == {i \in DOMAIN ns : Prop(ns[i], "id") = v}

\* SET n += node: every key of the map is written (a null value removes the
\* property), every other property of n stays
SetPlus(n, node) ==
    [k \in ((DOMAIN n) \cup (DOMAIN node)) \ {x \in DOMAIN node : node[x] = Null} |->
        IF k \in DOMAIN node THEN node[k] ELSE n[k]]

\* MERGE that never matches: every row creates a node
MergeNodeAlwaysCreate(ns, v) == [nodes |-> Append(ns, [id |-> v]), bound |-> {Len(ns) + 1}]

\* MERGE (n:TerraformResource {id: v}): the matching nodes, or a new node with
\* that id when there is none
MergeNode(ns, v) ==
    IF MatchNodes(ns, v) # {}
    THEN [nodes |-> ns, bound |-> MatchNodes(ns, v)]
    ELSE [nodes |-> Append(ns, [id |-> v]), bound |-> {Len(ns) + 1}]

\* SET n = node: the record replaces the node's properties
SetReplace(n, node) == SetPlus(EmptyDict, node)

\* the SET clause of ingest_nodes
SetNode(n, node) == SetPlus(n, node)

RECURSIVE IngestNodeRows(_, _, _)
\* UNWIND $nodes AS node MERGE ... SET n += node RETURN count(n), row by row
IngestNodeRows(ns, batch, count) ==
    IF batch = <<>> THEN [nodes |-> ns, count |-> count]
    ELSE LET node == Head(batch)
             m == MergeNode(ns, node.id)
             set == [i \in DOMAIN m.nodes |->
                        IF i \in m.bound THEN SetNode(m.nodes[i], node) ELSE m.nodes[i]]
         IN IngestNodeRows(set, Tail(batch), count + Cardinality(m.bound))

\* the relationships from s to t
RelsBetween(rels, s, t) == {r \in BagToSet(rels) : r.from = s /\ r.to = t}

\* MERGE (source)-[r:DEPENDS_ON]->(target) SET r.label = label, for one pair:
\* the relationships between the pair all take the label, or one is created
MergeRel(rels, s, t, label) ==
    LET hit == RelsBetween(rels, s, t)
        rest == [r \in BagToSet(rels) \ hit |-> rels[r]]
        n == BagCardinality([r \in hit |-> rels[r]])
        new == [from |-> s, to |-> t, label |-> label]
    IN IF hit = {}
       THEN [rels |-> rels (+) SetToBag({new}), rows |-> 1]
       ELSE [rels |-> rest (+) [r \in {new} |-> n], rows |-> n]

RECURSIVE MergeRelPairs(_, _, _, _)
\* the rows one edge yields: one MERGE per matched (source, target) pair
MergeRelPairs(rels, pairs, label, count) ==
    IF pairs = {} THEN [rels |-> rels, count |-> count]
    ELSE LET p == CHOOSE x \in pairs : TRUE
             m == MergeRel(rels, p[1], p[2], label)
         IN MergeRelPairs(m.rels, pairs \ {p}, label, count + m.rows)

\* endpoints found with MERGE instead of MATCH: a missing endpoint is created
EdgeEndpointsMerged(ns, edge) ==
    LET s == MergeNode(ns, edge.source)
        t == MergeNode(s.nodes, edge.target)
    IN [nodes |-> t.nodes, pairs |-> s.bound \X t.bound]

\* MATCH (source {id: edge.source}) MATCH (target {id: edge.target}): the pairs of
\* existing nodes; no node is created
EdgeEndpoints(ns, edge) ==
    [nodes |-> ns, pairs |-> MatchNodes(ns, edge.source) \X MatchNodes(ns, edge.target)]

RECURSIVE IngestEdgeRows(_, _, _, _)
\* UNWIND $edges AS edge MATCH MATCH MERGE SET RETURN count(r), row by row
IngestEdgeRows(ns, rels, batch, count) ==
    IF batch = <<>> THEN [nodes |-> ns, rels |-> rels, count |-> count]
    ELSE LET edge == Head(batch)
             ep == EdgeEndpoints(ns, edge)
             m == MergeRelPairs(rels, ep.pairs, edge.label, 0)
         IN IngestEdgeRows(ep.nodes, m.rels, Tail(batch), count + m.count)

\* ingest_nodes(nodes): nothing is sent for an empty list
IngestNodes(ns, batch) ==
    IF batch = <<>> THEN [nodes |-> ns, count |-> 0]
    ELSE IngestNodeRows(ns, batch, 0)

\* ingest_edges(edges): nothing is sent for an empty list
IngestEdges(ns, rels, batch) ==
    IF batch = <<>> THEN [nodes |-> ns, rels |-> rels, count |-> 0]
    ELSE IngestEdgeRows(ns, rels, batch, 0)

\* the counts a query over the nodes and, separately, over the relationships gives
StatsCounted(ns, rels) == [nodes |-> Len(ns), relationships |-> BagCardinality(rels)]

\* get_stats(): MATCH (n) OPTIONAL MATCH ()-[r]->() pairs every node with every
\* relationship (or with null when there is none); count(DISTINCT n), count(r)
GetStats(ns, rels) ==
    [nodes |-> Len(ns), relationships |-> Len(ns) * BagCardinality(rels)]

\* create_constraints without the try/except: the query's failure propagates
CreateConstraintsUncaught(queryFails) == queryFails

\* create_constraints(): whether the call raises when its query does
CreateConstraintsRaises(queryFails) == FALSE

(***************************************************************************)
(* Neo4jConnector driven through its methods on an open driver             *)
(***************************************************************************)
StoreIds == {"0", "1"}

\* node records: an id and possibly a name (a string or null)
NodeRecords ==
    {("id" :> "0") @@ n : n \in Opt("name", {"a", "b", Null})}
    \cup {[id |-> "1", name |-> v] : v \in {"a", "b"}}

\* edge records: endpoints that are an id or str(None), and a label
EdgeRecords ==
    {[source |-> "0", target |-> "1", label |-> l] : l \in {"DEPENDS_ON", "uses"}}
    \cup {[source |-> "1", target |-> "0", label |-> "DEPENDS_ON"],
          [source |-> "0", target |-> "None", label |-> "DEPENDS_ON"]}

\* what an ingest_nodes call did to the nodes `before`: whether it was given a
\* record, whether it created a node, whether a node it matched had a property no
\* record for its id names, and whether a property of an existing node changed
NodesEffect(before, after, batch) ==
    [given |-> batch # <<>>,
     created |-> Len(after) > Len(before),
     kept |-> \E i \in DOMAIN before : \E k \in DOMAIN before[i] :
                 /\ \E j \in DOMAIN batch : batch[j].id = Prop(before[i], "id")
                 /\ \A j \in DOMAIN batch :
                        batch[j].id = Prop(before[i], "id") => k \notin DOMAIN batch[j],
     overwrote |-> \E i \in DOMAIN before : \E k \in DOMAIN before[i] :
                      Prop(after[i], k) # before[i][k]]

\* what an ingest_edges call did: whether it was given a record, whether it
\* created a relationship
EdgesEffect(before, after, batch) ==
    [given |-> batch # <<>>,
     created |-> BagCardinality(after) > BagCardinality(before),
     kept |-> FALSE,
     overwrote |-> FALSE]

Batches(S) == UNION {[1..k -> S] : k \in 0..MaxBatch}
NodeBatches == Batches(NodeRecords)
EdgeBatches == Batches(EdgeRecords)

clear_database ==
    /\ driver = "open"
    /\ effect' = NoEffect
    /\ storeNodes' = <<>>
    /\ storeRels' = EmptyBag
    /\ ret' = Ok("clear_database", "None")
    /\ UNCHANGED <<parserVars, driver, runVars>>

create_constraints ==
    /\ driver = "open"
    /\ \E queryFails \in BOOLEAN :
          ret' = IF CreateConstraintsRaises(queryFails)
                 THEN Raised("create_constraints", "Exception")
                 ELSE Ok("create_constraints", "None")
    /\ effect' = NoEffect
    /\ UNCHANGED <<parserVars, driver, storeNodes, storeRels, runVars>>

ingest_nodes ==
    /\ driver = "open"
    /\ \E batch \in NodeBatches :
          LET r == IngestNodes(storeNodes, batch)
          IN /\ storeNodes' = r.nodes
             /\ ret' = Ok("ingest_nodes", r.count)
             /\ effect' = NodesEffect(storeNodes, r.nodes, batch)
    /\ UNCHANGED <<parserVars, driver, storeRels, runVars>>

ingest_edges ==
    /\ driver = "open"
    /\ \E batch \in EdgeBatches :
          LET r == IngestEdges(storeNodes, storeRels, batch)
          IN /\ storeNodes' = r.nodes
             /\ storeRels' = r.rels
             /\ ret' = Ok("ingest_edges", r.count)
             /\ effect' = EdgesEffect(storeRels, r.rels, batch)
    /\ UNCHANGED <<parserVars, driver, runVars>>

get_stats ==
    /\ driver = "open"
    /\ ret' = Ok("get_stats", GetStats(storeNodes, storeRels))
    /\ effect' = NoEffect
    /\ UNCHANGED <<parserVars, driver, storeNodes, storeRels, runVars>>

LoaderInit ==
    /\ file = [kind |-> "missing", doc |-> EmptyDict]
    /\ raw_data = <<>>
    /\ nodes = <<>>
    /\ edges = <<>>
    /\ everLoaded = FALSE
    /\ ret = NoCall
    /\ driver = "open"
    /\ storeNodes = <<>>
    /\ storeRels = EmptyBag
    /\ effect = NoEffect
    /\ pc = "idle"
    /\ clear_existing = TRUE
    /\ graph_data = <<>>
    /\ opLog = <<>>
    /\ constraintFailed = FALSE

LoaderNext ==
    \/ clear_database
    \/ create_constraints
    \/ ingest_nodes
    \/ ingest_edges
    \/ get_stats

LoaderSpec == LoaderInit /\ [][LoaderNext]_vars

(***************************************************************************)
(* main(): one run of the tool                                             *)
(***************************************************************************)
\* connect(): the driver is created, then verify_connectivity is called; either
\* may raise, and connect re-raises it as ConnectionError
Connect(outcome) ==
    CASE outcome = "driver_error" -> [driver |-> "none", raised |-> TRUE]
      [] outcome = "unreachable" -> [driver |-> "open", raised |-> TRUE]
      [] outcome = "connected" -> [driver |-> "open", raised |-> FALSE]

\* close(): the driver is closed when there is one
Close(d) == IF d # "none" THEN "closed" ELSE d

\* the objects and edges of the documents a run is given
RunObjEntries ==
    {g @@ ("name" :> "web") : g \in Opt("_gvid", GvidValues)}
RunEdgeEntries ==
    {("tail" :> t) @@ ("head" :> h) : t \in GvidValues, h \in GvidValues}

RunFiles == FilesOver(RunObjEntries, RunEdgeEntries)

\* what the store holds when the run starts
InitialStores == {<<>>, <<[id |-> "0", name |-> "old"]>>}

\* lines 135-143: a missing file ends the run at the exists() test, any other
\* failure of graph_data = parser.parse() at the except clause; both sys.exit(1)
main_parse ==
    /\ pc = "parse"
    /\ LET r == ParseOutcome(file, raw_data, nodes, edges)
       IN /\ raw_data' = r.raw
          /\ nodes' = r.nodes
          /\ edges' = r.edges
          /\ everLoaded' = (everLoaded \/ r.loaded)
          /\ ret' = r.ret
          /\ IF r.ret.status = "ok"
             THEN graph_data' = r.ret.value /\ pc' = "connect"
             ELSE graph_data' = graph_data /\ pc' = "failed"
    /\ UNCHANGED <<file, driver, storeVars, clear_existing, opLog, constraintFailed>>

\* line 147: with Neo4jConnector(...) as connector: __enter__ calls connect();
\* when it raises, the with statement never runs __exit__
main_enter ==
    /\ pc = "connect"
    /\ \E outcome \in {"driver_error", "unreachable", "connected"} :
          LET c == Connect(outcome)
          IN /\ driver' = c.driver
             /\ IF c.raised
                THEN /\ ret' = Raised("connect", "ConnectionError")
                     /\ pc' = "failed"
                ELSE /\ ret' = Ok("connect", "None")
                     /\ pc' = IF clear_existing THEN "clear" ELSE "constraints"
    /\ UNCHANGED <<parserVars, storeVars, clear_existing, graph_data, opLog,
                   constraintFailed>>

\* ingest_graph line 128: self.clear_database()
main_clear ==
    /\ pc = "clear"
    /\ opLog' = Append(opLog, "clear_database")
    /\ \E ok \in BOOLEAN :
          IF ok
          THEN /\ storeNodes' = <<>>
               /\ storeRels' = EmptyBag
               /\ ret' = Ok("clear_database", "None")
               /\ pc' = "constraints"
          ELSE /\ UNCHANGED <<storeNodes, storeRels>>
               /\ ret' = Raised("clear_database", "Exception")
               /\ pc' = "exit_raised"
    /\ UNCHANGED <<parserVars, driver, effect, clear_existing, graph_data,
                   constraintFailed>>

\* ingest_graph line 130: self.create_constraints()
main_constraints ==
    /\ pc = "constraints"
    /\ opLog' = Append(opLog, "create_constraints")
    /\ \E queryFails \in BOOLEAN :
          /\ constraintFailed' = queryFails
          /\ IF CreateConstraintsRaises(queryFails)
             THEN /\ ret' = Raised("create_constraints", "Exception")
                  /\ pc' = "exit_raised"
             ELSE /\ ret' = Ok("create_constraints", "None")
                  /\ pc' = "nodes"
    /\ UNCHANGED <<parserVars, driver, storeVars, clear_existing, graph_data>>

\* ingest_graph line 132: self.ingest_nodes(graph_data.get('nodes', []))
main_nodes ==
    /\ pc = "nodes"
    /\ opLog' = Append(opLog, "ingest_nodes")
    /\ \E ok \in {TRUE} \cup {b \in {FALSE} : graph_data[1].nodes # <<>>} :
          IF ok
          THEN LET r == IngestNodes(storeNodes, graph_data[1].nodes)
               IN /\ storeNodes' = r.nodes
                  /\ effect' = NodesEffect(storeNodes, r.nodes, graph_data[1].nodes)
                  /\ ret' = Ok("ingest_nodes", r.count)
                  /\ pc' = "edges"
          ELSE /\ UNCHANGED <<storeNodes, effect>>
               /\ ret' = Raised("ingest_nodes", "Exception")
               /\ pc' = "exit_raised"
    /\ UNCHANGED <<parserVars, driver, storeRels, clear_existing, graph_data,
                   constraintFailed>>

\* ingest_graph line 133: self.ingest_edges(graph_data.get('edges', []))
main_edges ==
    /\ pc = "edges"
    /\ opLog' = Append(opLog, "ingest_edges")
    /\ \E ok \in {TRUE} \cup {b \in {FALSE} : graph_data[1].edges # <<>>} :
          IF ok
          THEN LET r == IngestEdges(storeNodes, storeRels, graph_data[1].edges)
               IN /\ storeNodes' = r.nodes
                  /\ storeRels' = r.rels
                  /\ effect' = EdgesEffect(storeRels, r.rels, graph_data[1].edges)
                  /\ ret' = Ok("ingest_edges", r.count)
                  /\ pc' = "stats"
          ELSE /\ UNCHANGED <<storeNodes, storeRels, effect>>
               /\ ret' = Raised("ingest_edges", "Exception")
               /\ pc' = "exit_raised"
    /\ UNCHANGED <<parserVars, driver, clear_existing, graph_data, constraintFailed>>

\* line 152: stats = connector.get_stats()
main_stats ==
    /\ pc = "stats"
    /\ \E ok \in BOOLEAN :
          IF ok
          THEN /\ ret' = Ok("get_stats", GetStats(storeNodes, storeRels))
               /\ pc' = "exit_normal"
          ELSE /\ ret' = Raised("get_stats", "Exception")
               /\ pc' = "exit_raised"
    /\ UNCHANGED <<parserVars, driver, storeVars, clear_existing, graph_data, opLog,
                   constraintFailed>>

\* the with block is left: __exit__ calls close(); a pending exception then
\* reaches the except clause and sys.exit(1)
main_exit ==
    /\ pc \in {"exit_normal", "exit_raised"}
    /\ driver' = Close(driver)
    /\ pc' = IF pc = "exit_normal" THEN "done" ELSE "failed"
    /\ UNCHANGED <<parserVars, ret, storeVars, clear_existing, graph_data, opLog,
                   constraintFailed>>

RunInit ==
    /\ file \in RunFiles
    /\ raw_data = <<>>
    /\ nodes = <<>>
    /\ edges = <<>>
    /\ everLoaded = FALSE
    /\ ret = NoCall
    /\ driver = "none"
    /\ storeNodes \in InitialStores
    /\ storeRels = EmptyBag
    /\ effect = NoEffect
    /\ pc = "parse"
    /\ clear_existing \in BOOLEAN
    /\ graph_data = <<>>
    /\ opLog = <<>>
    /\ constraintFailed = FALSE

RunNext ==
    \/ main_parse
    \/ main_enter
    \/ main_clear
    \/ main_constraints
    \/ main_nodes
    \/ main_edges
    \/ main_stats
    \/ main_exit

RunSpec == RunInit /\ [][RunNext]_vars

(***************************************************************************)
(* Parser properties                                                       *)
(***************************************************************************)
\* the loaded document's objects / edges collections (empty when absent)
Objects == IF raw_data = <<>> THEN <<>> ELSE Get(raw_data[1], "objects", <<>>)
EdgesIn == IF raw_data = <<>> THEN <<>> ELSE Get(raw_data[1], "edges", <<>>)

\* positions of the objects entries that carry the internal identifier
Identified == {i \in DOMAIN Objects : "_gvid" \in DOMAIN Objects[i]}

\* the j-th smallest position of Identified
Kth(j) == CHOOSE i \in Identified : Cardinality({h \in Identified : h < i}) = j - 1

ParseNodesReturned == ret.op = "parse_nodes" /\ ret.status = "ok"

DrawingKeys == {"_draw_", "_ldraw_", "_hdraw_", "_tdraw_"}

\* C2: no parsed node or edge record carries _gvid or a drawing-attribute key.
C2_ExcludedKeysNeverCopied ==
    /\ \A i \in DOMAIN nodes : DOMAIN nodes[i] \cap ({"_gvid"} \cup DrawingKeys) = {}
    /\ \A i \in DOMAIN edges : DOMAIN edges[i] \cap ({"_gvid"} \cup DrawingKeys) = {}

\* C3: parse_nodes, parse_edges and get_graph_metadata raise exactly when no
\* load_graph call has succeeded before them.
C3_StateErrorOnlyBeforeLoad ==
    ret.op \in {"parse_nodes", "parse_edges", "get_graph_metadata"}
        => (ret.status # "ok" <=> ~everLoaded)

C10_CoreFieldsKept ==
    /\ Len(nodes) = Cardinality(Identified) =>
           \A j \in DOMAIN nodes :
               LET obj == Objects[Kth(j)]
               IN /\ nodes[j].id = StrGet(obj, "_gvid")
                  /\ nodes[j].name = Get(obj, "name", "")
                  /\ nodes[j].label = Get(obj, "label", Get(obj, "name", ""))
    /\ Len(edges) = Len(EdgesIn) =>
           \A j \in DOMAIN edges :
               /\ edges[j].source = StrGet(EdgesIn[j], "tail")
               /\ edges[j].target = StrGet(EdgesIn[j], "head")

(***************************************************************************)
(* Store properties                                                        *)
(***************************************************************************)
\* C1: get_stats returns the number of nodes and the number of relationships the
\* store holds.
C1_StatsAreStoreCounts ==
    (ret.op = "get_stats" /\ ret.status = "ok")
        => ret.value[1] = StatsCounted(storeNodes, storeRels)

\* the positions of the records with id v, and the last of them that carries key k
RecordsFor(batch, v) == {j \in DOMAIN batch : batch[j].id = v}
Carrying(batch, v, k) == {j \in RecordsFor(batch, v) : k \in DOMAIN batch[j]}
LastCarrying(batch, v, k) ==
    CHOOSE j \in Carrying(batch, v, k) : \A h \in Carrying(batch, v, k) : h <= j

\* C5: the store never holds two nodes with one id, and for every batch N a second
\* ingest_nodes(N) right after the first leaves the number of nodes unchanged.
C5_UpsertNodesIdempotent ==
    /\ \A i \in DOMAIN storeNodes : \A j \in DOMAIN storeNodes :
           i # j => Prop(storeNodes[i], "id") # Prop(storeNodes[j], "id")
    /\ \A N \in NodeBatches :
           LET once == IngestNodes(storeNodes, N).nodes
           IN Len(IngestNodes(once, N).nodes) = Len(once)

\* C5 witness: an ingest_nodes call that was given records and created no node,
\* on a store that holds a node for each id.
C5_Witness ==
    /\ ret.op = "ingest_nodes"
    /\ effect.given
    /\ ~effect.created
    /\ {Prop(storeNodes[i], "id") : i \in DOMAIN storeNodes} = StoreIds

\* an edge one of whose endpoints matches no node
Dangling(ns, edge) ==
    MatchNodes(ns, edge.source) = {} \/ MatchNodes(ns, edge.target) = {}

\* C6: ingest_edges creates no node and does not raise; the relationships it adds
\* join the endpoints of edges that are not dangling, and the count it returns is
\* the number of edges of the batch that are not dangling.
C6_DanglingEdgesSkipped ==
    /\ ret.op = "ingest_edges" => ret.status = "ok"
    /\ \A E \in EdgeBatches :
           LET r == IngestEdges(storeNodes, storeRels, E)
               live == {j \in DOMAIN E : ~Dangling(storeNodes, E[j])}
           IN /\ r.nodes = storeNodes
              /\ r.count = Cardinality(live)
              /\ (live = {} => r.rels = storeRels)
              /\ \A rel \in BagToSet(r.rels) \ BagToSet(storeRels) :
                     \E j \in live :
                         /\ Prop(storeNodes[rel.from], "id") = E[j].source
                         /\ Prop(storeNodes[rel.to], "id") = E[j].target

\* C6 witness: ingest_edges was given edges whose target is missing while their
\* source exists, created nothing and returned 0.
C6_Witness ==
    /\ ret.op = "ingest_edges"
    /\ ret.status = "ok"
    /\ ret.value[1] = 0
    /\ effect.given
    /\ ~effect.created
    /\ Len(storeNodes) = 1

\* C8 as stated: after ingest_nodes(N), a node that was in the store has, for every
\* record of N with its id, the record's value under each key of the record and
\* its previous value under each key the record lacks; other nodes are unchanged.
C8_EveryRecordWinsItsKeys ==
    \A N \in NodeBatches :
        LET after == IngestNodes(storeNodes, N).nodes
        IN \A i \in DOMAIN storeNodes :
              /\ \A j \in RecordsFor(N, Prop(storeNodes[i], "id")) :
                    /\ \A k \in DOMAIN N[j] : Prop(after[i], k) = N[j][k]
                    /\ \A k \in (DOMAIN storeNodes[i]) \ (DOMAIN N[j]) :
                           Prop(after[i], k) = storeNodes[i][k]
              /\ RecordsFor(N, Prop(storeNodes[i], "id")) = {} => after[i] = storeNodes[i]

\* C8 amended: after ingest_nodes(N), a node that was in the store has, under each
\* key some record of N with its id carries, the value of the last such record,
\* and its previous value under every key no record with its id carries; nodes
\* whose id is not in N are unchanged.
C8_LastRecordWinsOthersKept ==
    \A N \in NodeBatches :
        LET after == IngestNodes(storeNodes, N).nodes
        IN \A i \in DOMAIN storeNodes :
              LET v == Prop(storeNodes[i], "id")
              IN /\ \A k \in UNION {DOMAIN N[j] : j \in RecordsFor(N, v)} :
                        Prop(after[i], k) = N[LastCarrying(N, v, k)][k]
                 /\ \A k \in DOMAIN storeNodes[i] :
                        Carrying(N, v, k) = {} =>
                            (k \in DOMAIN after[i] /\ after[i][k] = storeNodes[i][k])
                 /\ RecordsFor(N, v) = {} => after[i] = storeNodes[i]

\* C8 witness: an ingest_nodes call created no node, overwrote a property of one
\* existing node and left in place a property that no record for its node named.
C8_Witness ==
    /\ ret.op = "ingest_nodes"
    /\ ~effect.created
    /\ effect.kept
    /\ effect.overwrote

(***************************************************************************)
(* Run properties                                                          *)
(***************************************************************************)
Finished == pc \in {"done", "failed"}

\* C4: when the run ends, no driver it opened is left unclosed.
C4_DriverReleasedAtEnd == Finished => driver # "open"

\* the store operations of ingest_graph, in program order
IngestOrder ==
    (IF clear_existing THEN <<"clear_database">> ELSE <<>>)
    \o <<"create_constraints", "ingest_nodes", "ingest_edges">>

IsPrefix(s, t) == Len(s) <= Len(t) /\ \A i \in DOMAIN s : s[i] = t[i]

\* C7: the store operations of a run are started in the order clear_database (only
\* when clear_existing), create_constraints, ingest_nodes, ingest_edges, and the
\* step after create_constraints is ingest_nodes whether or not its query failed.
C7_IngestOrder ==
    /\ [](IsPrefix(opLog, IngestOrder))
    /\ [][pc = "constraints" => pc' = "nodes"]_vars
    /\ [][pc = "nodes" /\ pc' = "edges" => ret'.op = "ingest_nodes" /\ ret'.status = "ok"]_vars

\* C7 witness: a run with clear_existing whose constraint query failed has gone
\* through all four operations and upserted nodes and a relationship.
C7_Witness ==
    /\ pc = "stats"
    /\ clear_existing
    /\ constraintFailed
    /\ opLog = <<"clear_database", "create_constraints", "ingest_nodes", "ingest_edges">>
    /\ storeNodes # <<>>
    /\ storeRels # EmptyBag

====
